---- MODULE Spec2Model ----
(***************************************************************************)
(* Preference-learning and ranking pipeline of video-finder-algorithm.     *)
(*                                                                         *)
(* Spec      the classifier lifecycle of the two entry points that own a   *)
(*           classifier: the Flask dashboard (dashboard_api.py, requests   *)
(*           served on concurrent threads) and the interactive command     *)
(*           line application (main.py, one thread).                       *)
(* SpecRank  one recommendation request as a pipeline of functions over    *)
(*           lists: candidate query, ranker, the two enhancement stages,   *)
(*           truncation, and the fallback of an untrained dashboard.       *)
(***************************************************************************)
EXTENDS Integers, Sequences, FiniteSets, TLC

(***************************************************************************)
(* Program constants.                                                      *)
(***************************************************************************)
\* AppConfig.ML_TRAINING_THRESHOLD: the gate the dashboard applies to COUNT(preferences).
ML_TRAINING_THRESHOLD == 10

\* The literal in train_model_on_user_preferences: len(training_data) < 10.
MIN_TRAINING_ROWS == 10

(***************************************************************************)
(* Bounds of the model.                                                    *)
(***************************************************************************)
\* Requests that write to the rating store, per run.
MaxRequests == 2

\* The rating store found at process start holds between
\* ML_TRAINING_THRESHOLD - BaseSpread and ML_TRAINING_THRESHOLD liked rows.
BaseSpread == 1

(***************************************************************************)
(* Data.                                                                   *)
(***************************************************************************)
\* Video ids the modelled requests name.
Named == {"v1", "v2"}

\* Values of preferences.liked.  The dashboard stores whatever JSON value the
\* request carries (only None is refused); "invalid" stands for a value the
\* classifier refuses as a label (0.5, a string among integers, ...).
Labels == {"like", "dislike", "invalid"}

Threads == {"t1", "t2"}

ZeroBag == [l \in Labels |-> 0]

BagSize(b) == b["like"] + b["dislike"] + b["invalid"]

EmptyData == [v \in Named |-> ZeroBag]

\* SELECT COUNT(*) FROM preferences
get_rated_count_from_database(b, p) ==
    BagSize(b) + BagSize(p["v1"]) + BagSize(p["v2"])

\* SELECT vf.*, p.liked FROM video_features vf JOIN preferences p ON vf.video_id = p.video_id
\* (the rows of the named videos; the base rows all have features and are
\* part of every result).
get_training_data_from_database(p, f) ==
    [v \in Named |-> IF v \in f THEN p[v] ELSE ZeroBag]

\* len(training_data)
RowCount(b, d) == BagSize(b) + BagSize(d["v1"]) + BagSize(d["v2"])

\* The label values of training_data['liked'].
LabelsOf(b, d) ==
    {l \in Labels : b[l] > 0 \/ (\E v \in Named : d[v][l] > 0)}

(***************************************************************************)
(* The classifier object (sklearn RandomForestClassifier).                 *)
(*   attr    the object has an estimators_ attribute (some fit got as far  *)
(*           as resetting it)                                              *)
(*   trees   the training sets whose trees estimators_ holds               *)
(*   classes classes_ as set by the last fit that passed validation        *)
(***************************************************************************)
NoModel == [exists |-> FALSE, attr |-> FALSE, trees |-> {}, classes |-> {}]

create_recommendation_model == [exists |-> TRUE, attr |-> FALSE, trees |-> {}, classes |-> {}]

\* Python truth value of the handle, as `if self.model` / `if not dashboard_api.model`
\* compute it: None is false; a RandomForestClassifier is a BaseEnsemble, whose
\* __len__ is len(self.estimators_): it raises AttributeError before any fit,
\* is 0 (false) while a fit has reset the list, and is true once trees are in.
Truth(m) ==
    IF ~m.exists THEN "false"
    ELSE IF ~m.attr THEN "raise"
    ELSE IF m.trees = {} THEN "false"
    ELSE "true"

\* model.fit(X, y), first part: input validation sets classes_, then
\* estimators_ is reset to [] before the trees are grown.
FitBegin(m, b, d) == [m EXCEPT !.attr = TRUE, !.trees = {}, !.classes = LabelsOf(b, d)]

\* model.fit(X, y), last part: self.estimators_.extend(trees).
FitEnd(m, d) == [m EXCEPT !.trees = @ \cup {d}]

\* A trainer that also turns away exactly MIN_TRAINING_ROWS rows.
TooFewRowsInclusive(n) == n <= MIN_TRAINING_ROWS

\* if len(training_data) < 10
TooFewRows(n) == n < MIN_TRAINING_ROWS

\* What train_model_on_user_preferences does with training_data:
\* "false" (too few rows), "raise" (fit refuses the labels), "fit".

train_model_on_user_preferences(b, d) ==
    IF TooFewRows(RowCount(b, d)) THEN "false"
    ELSE IF "invalid" \in LabelsOf(b, d) THEN "raise"
    ELSE "fit"

(***************************************************************************)
(* State.                                                                  *)
(***************************************************************************)
VARIABLES
    app,            \* "dashboard" or "cli": the entry point this process runs
    phase,          \* "boot", "serving", "crashed"
    base,           \* rows of preferences stored before the process started
    prefs,          \* rows of preferences on the named videos: video -> label -> count
    videos,         \* ids with a row in videos
    features,       \* ids with a row in video_features
    model,          \* dashboard_api.model / self.model
    model_trained,  \* dashboard_api.model_trained / self.model_trained
    pc,             \* position of each request thread
    loc,            \* locals of each request thread
    resp,           \* the response each thread gave last
    nreq,           \* writing requests started so far
    \* the ranking pipeline, one request at a time
    table,          \* unrated stored videos with features, in rowid order,
                    \* each with the probability the classifier gives it
    top_n,          \* the number of recommendations asked for
    rmodel,         \* "none": no trained model; "fitted": a fitted binary classifier
    youtube_tags,   \* get_youtube_tags_for_personalization(user_id) is non-empty
    vocabulary,     \* the TF-IDF vectorizer finds a term in the documents
    user_data,      \* what get_cached_user_data(user_id) has for the user
    base_recommendations,   \* the list the ranker gave the enhancer
    cands,          \* video_features, the candidate frame in query order
    out,            \* the list the last pipeline step produced
    step,           \* the pipeline step that produced out
    invoked,        \* the classifier was asked for probabilities
    \* the boost of one entry, taken by itself
    unit_rec,       \* rec, the entry: channel_name, view_count, title
    unit_patterns,  \* patterns, the engagement patterns of the user
    unit_prob,      \* current_prob, the entry's like_probability
    unit_boost,     \* boost_factor, 0 before it is computed
    unit_new,       \* boosted_prob, -1 before it is computed
    \* the stored videos, taken by themselves
    sessions,       \* ids with a row in search_sessions
    last_op,        \* the last saving or deleting request: what it was given
                    \* and how it ended
    \* the feature extractor, taken by itself
    feat_video,     \* the video dict the caller holds
    feat_given,     \* the video as it was before any call
    feat_first,     \* what the first call on it returned
    feat_between,   \* calls made on other videos since
    feat_second,    \* what the second call on it returned
    \* ratings and recommendation requests, one after the other
    catalog,        \* the stored videos with their feature rows
    rated,          \* the video ids that have a row in preferences
    ever_rated,     \* the video ids that had one at some time
    \* the engagement analysis of one user, and one candidate boosted by it
    liked_videos,   \* user_data['liked_videos']: channel and view count of each
    subscriptions,  \* the topics the user's subscriptions name
    analysed,       \* _analyze_engagement_patterns has returned
    \* the OAuth login of one browser
    oauth_state,    \* session['oauth_state'] in the browser's session cookie
    oauth_states,   \* the rows of table oauth_states
    issued,         \* the state values the login step has generated
    validated,      \* how often a callback with each state passed validation
    oauth_response  \* what the last login or callback request answered

life == <<app, phase, base, prefs, videos, features, model, model_trained, pc, loc, resp, nreq>>

rank == <<table, top_n, rmodel, youtube_tags, vocabulary, user_data,
          base_recommendations, cands, out, step, invoked>>

\* what a recommendation request is given
given == <<table, top_n, rmodel, youtube_tags, vocabulary, user_data>>

\* one call of _calculate_pattern_boost and the use of its result
unit == <<unit_rec, unit_patterns, unit_prob, unit_boost, unit_new>>

\* the search sessions and the last request that saves or deletes videos
store == <<sessions, last_op>>

\* one video and the calls of the feature extractor on it
feat == <<feat_video, feat_given, feat_first, feat_between, feat_second>>

\* the stored videos and which of them are rated
serve == <<catalog, rated, ever_rated>>

\* the cached YouTube data of one user
profile == <<liked_videos, subscriptions, analysed>>

\* the login flow: session, stored states, and what callbacks were let through
oauth == <<oauth_state, oauth_states, issued, validated, oauth_response>>

aux == <<feat, serve, profile, oauth>>

vars == <<life, rank, unit, store, aux>>

db == <<base, prefs, videos, features>>

\* handler  the route being served
\* data     training_data
\* own      the object this thread fits or predicts with is still the handle
\* touched  a fit has written to that object since this thread's prediction began
\* outcome  how the trainer call ended: "none", "false", "true", "raise"
IdleLoc == [handler |-> "none", data |-> EmptyData, own |-> FALSE,
            touched |-> FALSE, outcome |-> "none"]

save_video_rating_to_database(p, v, l) == [p EXCEPT ![v][l] = @ + 1]

\* A videos table that takes the thirteen values.
SaveVideosAccepted(vs, batch) == [raised |-> FALSE, videos |-> vs \cup batch]

\* save_videos_to_database: INSERT OR REPLACE INTO videos VALUES (13 values),
\* in one transaction.  setup_database_tables leaves videos with 15 columns
\* (13 created, search_session_id and search_topic added), so the first
\* INSERT raises sqlite3.OperationalError and the transaction is rolled
\* back; an empty list executes nothing.
save_videos_to_database(vs, batch) == [raised |-> batch # {}, videos |-> vs]

\* extract_all_features_from_video raises (KeyError, AttributeError,
\* TypeError) on a video of bad, one without a usable title, description or
\* count; else it gives the eleven features.
extract_all_features_from_video(v, bad) == IF v \in bad THEN "raise" ELSE "features"

\* save_video_features_to_database: INSERT OR REPLACE, video_id is the
\* primary key of video_features.
save_video_features_to_database(fs, v) == fs \cup {v}

\* save_videos_to_database(videos), then for each video in turn extract and
\* save its features; done are the videos ahead of the first one that
\* extraction raises on.  The outcomes: whether it raised, and the tables.
_save_videos_with_features(vs, fs, batch, bad) ==
    LET saved == save_videos_to_database(vs, batch)
    IN IF saved.raised
       THEN {[raised |-> TRUE, videos |-> vs, features |-> fs]}
       ELSE IF \A v \in batch : extract_all_features_from_video(v, bad) = "features"
       THEN {[raised |-> FALSE, videos |-> saved.videos, features |-> fs \cup batch]}
       ELSE {[raised |-> TRUE, videos |-> saved.videos, features |-> fs \cup done] :
                done \in SUBSET (batch \ bad)}

\* No ranking request is in progress.
RankIdle ==
    /\ table = <<>> /\ top_n = 0 /\ rmodel = "none"
    /\ youtube_tags = FALSE /\ vocabulary = FALSE
    /\ user_data = [cached |-> FALSE, wellformed |-> TRUE,
                    patterns |-> [popular_channels |-> {},
                                  view_count_preference |-> "moderate",
                                  topic_preferences |-> {}]]
    /\ base_recommendations = <<>>
    /\ cands = <<>> /\ out = <<>> /\ step = "off" /\ invoked = FALSE

UnitIdle ==
    /\ unit_rec = [channel_name |-> "", view_count |-> 0, title |-> ""]
    /\ unit_patterns = [popular_channels |-> {}, view_count_preference |-> "moderate",
                        topic_preferences |-> {}]
    /\ unit_prob = 0 /\ unit_boost = 0 /\ unit_new = -1

NoOp == [kind |-> "none", batch |-> {}, bad |-> {}, outcome |-> "none"]

StoreIdle == sessions = {} /\ last_op = NoOp

\* no call of the feature extractor has returned
NoFeatures == [called |-> FALSE]

FeatIdle ==
    /\ feat_video = [title |-> "", description |-> "", view_count |-> 0,
                     like_count |-> 0, comment_count |-> 0]
    /\ feat_given = feat_video
    /\ feat_first = NoFeatures /\ feat_between = 0 /\ feat_second = NoFeatures

ServeIdle == catalog = <<>> /\ rated = {} /\ ever_rated = {}

ProfileIdle == liked_videos = <<>> /\ subscriptions = {} /\ analysed = FALSE

\* token values a request can carry as its state parameter
States == {"s1", "s2", "s3"}

OAuthIdle ==
    /\ oauth_state = "none" /\ oauth_states = {} /\ issued = {}
    /\ validated = [s \in States |-> 0] /\ oauth_response = "none"

AuxIdle == FeatIdle /\ ServeIdle /\ ProfileIdle /\ OAuthIdle

Init ==
    /\ app \in {"dashboard", "cli"}
    /\ phase = "boot"
    /\ base \in [like : (ML_TRAINING_THRESHOLD - BaseSpread)..ML_TRAINING_THRESHOLD,
                 dislike : {0, 1},
                 invalid : {0}]
    /\ prefs \in {EmptyData, save_video_rating_to_database(EmptyData, "v1", "like")}
    /\ videos = {"v1"}
    /\ features = {"v1"}
    /\ model = NoModel
    /\ model_trained = FALSE
    /\ pc = [t \in Threads |-> "idle"]
    /\ loc = [t \in Threads |-> IdleLoc]
    /\ resp = [t \in Threads |-> "none"]
    /\ nreq = 0
    /\ RankIdle
    /\ UnitIdle
    /\ StoreIdle
    /\ AuxIdle

(***************************************************************************)
(* Steps shared by the handlers.                                           *)
(***************************************************************************)
\* The handler returns its response; the thread holds it (with the handler's
\* locals) until Return hands it to the client.
Respond(t, r) ==
    /\ pc' = [pc EXCEPT ![t] = "done"]
    /\ resp' = [resp EXCEPT ![t] = r]

Return(t) ==
    /\ pc[t] = "done"
    /\ phase # "crashed"
    /\ pc' = [pc EXCEPT ![t] = "idle"]
    /\ loc' = [loc EXCEPT ![t] = IdleLoc]
    /\ resp' = [resp EXCEPT ![t] = "none"]
    /\ UNCHANGED <<app, phase, db, model, model_trained, nreq>>
    /\ UNCHANGED <<rank, unit, store, aux>>

Begin(t, h) == [IdleLoc EXCEPT !.handler = h]

\* A response is handed over before any thread takes its next step: Return
\* clears only what the responding thread held, which no other step reads.
Delivered == \A u \in Threads : pc[u] # "done"

\* The server hands a request to the first free worker thread.
Serving(t) ==
    /\ app = "dashboard" /\ phase = "serving" /\ pc[t] = "idle" /\ Delivered
    /\ t = "t2" => pc["t1"] # "idle"

\* save_video_rating_to_database: INSERT INTO preferences (video_id, liked, notes)

\* remove_video_preference: DELETE FROM preferences WHERE video_id = ?
remove_video_preference(p, v) == [p EXCEPT ![v] = ZeroBag]

\* A caller that stores the trainer's result as the flag.
SetTrainedOnSuccess(trained, success) == success

\* if success: model_trained = True
AfterTraining(trained, success) == IF success THEN TRUE ELSE trained

\* The gate of every retraining site: rated_count >= AppConfig.ML_TRAINING_THRESHOLD
GatePasses(rated_count) == rated_count >= ML_TRAINING_THRESHOLD

(***************************************************************************)
(* Dashboard: construction.  DashboardAPI.__init__ runs _initialize_model  *)
(* before the server accepts a request; an exception here ends the         *)
(* process.                                                                *)
(***************************************************************************)
_initialize_model ==
    /\ app = "dashboard" /\ phase = "boot"
    /\ LET rated_count == get_rated_count_from_database(base, prefs)
           training_data == get_training_data_from_database(prefs, features)
           how == train_model_on_user_preferences(base, training_data)
           fresh == create_recommendation_model
       IN IF GatePasses(rated_count)
          THEN /\ model' = IF how = "fit"
                           THEN FitEnd(FitBegin(fresh, base, training_data), training_data)
                           ELSE fresh
               /\ model_trained' = AfterTraining(model_trained, how = "fit")
               /\ phase' = IF how = "raise" THEN "crashed" ELSE "serving"
               /\ loc' = [loc EXCEPT !["t1"] =
                             [Begin("t1", "startup") EXCEPT
                                 !.data = training_data,
                                 !.outcome = IF how = "fit" THEN "true" ELSE how]]
          ELSE /\ phase' = "serving"
               /\ loc' = [loc EXCEPT !["t1"] = Begin("t1", "startup")]
               /\ UNCHANGED <<model, model_trained>>
    /\ Respond("t1", "booted")
    /\ UNCHANGED <<app, db, nreq>>
    /\ UNCHANGED <<rank, unit, store, aux>>

(***************************************************************************)
(* Dashboard: the routes that write a rating.  Each saves (or deletes) and *)
(* then runs the same retraining code, modelled by Gate, Load, Train and   *)
(* FitDone below.                                                          *)
(***************************************************************************)
\* POST /api/rate
rate_video(t, v, l) ==
    /\ Serving(t)
    /\ nreq < MaxRequests
    /\ prefs' = save_video_rating_to_database(prefs, v, l)
    /\ pc' = [pc EXCEPT ![t] = "gate"]
    /\ loc' = [loc EXCEPT ![t] = Begin(t, "rate")]
    /\ resp' = [resp EXCEPT ![t] = "none"]
    /\ nreq' = nreq + 1
    /\ UNCHANGED <<app, phase, base, videos, features, model, model_trained>>
    /\ UNCHANGED <<rank, unit, store, aux>>

\* POST /api/add-video-by-url and POST /api/import-youtube-video: refuse a
\* video that is stored and liked (409); otherwise store the video, its
\* features and a liked rating; an exception on the way answers 500.
add_video(t, v) ==
    /\ Serving(t)
    /\ nreq < MaxRequests
    /\ loc' = [loc EXCEPT ![t] = Begin(t, "add")]
    /\ nreq' = nreq + 1
    /\ IF v \in videos /\ prefs[v]["like"] > 0
       THEN /\ Respond(t, "conflict")
            /\ UNCHANGED <<prefs, videos, features>>
       ELSE \E o \in _save_videos_with_features(videos, features, {v}, {}) :
                /\ videos' = o.videos
                /\ features' = o.features
                /\ IF o.raised
                   THEN /\ Respond(t, "error")
                        /\ UNCHANGED prefs
                   ELSE /\ prefs' = save_video_rating_to_database(prefs, v, "like")
                        /\ pc' = [pc EXCEPT ![t] = "gate"]
                        /\ resp' = [resp EXCEPT ![t] = "none"]
    /\ UNCHANGED <<app, phase, base, model, model_trained>>
    /\ UNCHANGED <<rank, unit, store, aux>>

\* POST /api/remove-liked
remove_liked_video(t, v) ==
    /\ Serving(t)
    /\ nreq < MaxRequests
    /\ loc' = [loc EXCEPT ![t] = Begin(t, "remove")]
    /\ nreq' = nreq + 1
    /\ IF BagSize(prefs[v]) = 0
       THEN /\ Respond(t, "notfound")
            /\ UNCHANGED prefs
       ELSE /\ prefs' = remove_video_preference(prefs, v)
            /\ pc' = [pc EXCEPT ![t] = "gate"]
            /\ resp' = [resp EXCEPT ![t] = "none"]
    /\ UNCHANGED <<app, phase, base, videos, features, model, model_trained>>
    /\ UNCHANGED <<rank, unit, store, aux>>

\* rated_count = get_rated_count_from_database(...)
\* if rated_count >= AppConfig.ML_TRAINING_THRESHOLD:
\*     if not dashboard_api.model: dashboard_api.model = create_recommendation_model()
\*     training_data = get_training_data_from_database(...)
\* A handle replaced here detaches every fit still running on the old object.
Gate(t) ==
    /\ pc[t] = "gate" /\ Delivered
    /\ LET rated_count == get_rated_count_from_database(base, prefs)
           training_data == get_training_data_from_database(prefs, features)
           truth == Truth(model)
       IN IF ~GatePasses(rated_count)
          THEN /\ Respond(t, "ok")
               /\ UNCHANGED <<model, loc>>
          ELSE IF truth = "raise"
          THEN /\ Respond(t, "error")
               /\ UNCHANGED <<model, loc>>
          ELSE /\ model' = IF truth = "false" THEN create_recommendation_model ELSE model
               /\ loc' = [u \in Threads |->
                           IF u = t THEN [loc[u] EXCEPT !.data = training_data]
                           ELSE IF truth = "false" THEN [loc[u] EXCEPT !.own = FALSE]
                           ELSE loc[u]]
               /\ pc' = [pc EXCEPT ![t] = "train"]
               /\ UNCHANGED resp
    /\ UNCHANGED <<app, phase, db, model_trained, nreq>>
    /\ UNCHANGED <<rank, unit, store, aux>>

\* success = train_model_on_user_preferences(dashboard_api.model, training_data),
\* up to the point where fit starts to grow trees.  An exception leaves the
\* trainer and is answered by the route's except clause with a 500.
Train(t) ==
    /\ pc[t] = "train" /\ Delivered
    /\ LET how == train_model_on_user_preferences(base, loc[t].data)
       IN /\ loc' = [u \in Threads |->
                      IF u = t
                      THEN [loc[u] EXCEPT !.own = (how = "fit"),
                                          !.outcome = IF how = "fit" THEN "none" ELSE how]
                      ELSE IF how = "fit" /\ pc[u] = "predict" /\ loc[u].own
                      THEN [loc[u] EXCEPT !.touched = TRUE]
                      ELSE loc[u]]
          /\ IF how = "fit"
             THEN /\ model' = FitBegin(model, base, loc[t].data)
                  /\ pc' = [pc EXCEPT ![t] = "fit"]
                  /\ UNCHANGED resp
             ELSE /\ Respond(t, IF how = "raise" THEN "error" ELSE "ok")
                  /\ UNCHANGED model
          /\ model_trained' = IF how = "false" THEN AfterTraining(model_trained, FALSE)
                              ELSE model_trained
    /\ UNCHANGED <<app, phase, db, nreq>>
    /\ UNCHANGED <<rank, unit, store, aux>>

\* fit returns; the trainer returns True; dashboard_api.model_trained = True
FitDone(t) ==
    /\ pc[t] = "fit" /\ Delivered
    /\ model' = IF loc[t].own THEN FitEnd(model, loc[t].data) ELSE model
    /\ model_trained' = AfterTraining(model_trained, TRUE)
    /\ loc' = [u \in Threads |->
                  IF u = t THEN [loc[u] EXCEPT !.outcome = "true"]
                  ELSE IF loc[t].own /\ pc[u] = "predict" /\ loc[u].own
                  THEN [loc[u] EXCEPT !.touched = TRUE]
                  ELSE loc[u]]
    /\ Respond(t, "retrained")
    /\ UNCHANGED <<app, phase, db, nreq>>
    /\ UNCHANGED <<rank, unit, store, aux>>

(***************************************************************************)
(* Dashboard: the routes that predict.                                     *)
(***************************************************************************)
\* What a recommendation request knows about the user: no session ("anon"),
\* a user without YouTube tags ("notags"), a user with tags ("tags"), a
\* user for whom the personalization service raises ("broken").
Users == {"anon", "notags", "tags", "broken"}

\* DashboardAPI.get_recommendations up to the predict call:
\* `if self.model_trained and self.model`.
PredictBegin(t) ==
    /\ Serving(t)
    /\ LET truth == IF model_trained THEN Truth(model) ELSE "false"
       IN /\ loc' = [loc EXCEPT ![t] = IF truth = "true"
                                         THEN [Begin(t, "recs") EXCEPT !.own = TRUE]
                                         ELSE Begin(t, "recs")]
          /\ IF truth = "true"
             THEN /\ pc' = [pc EXCEPT ![t] = "predict"]
                  /\ resp' = [resp EXCEPT ![t] = "none"]
             ELSE Respond(t, IF truth = "raise" THEN "error" ELSE "fallback")
    /\ UNCHANGED <<app, phase, db, model, model_trained, nreq>>
    /\ UNCHANGED <<rank, unit, store, aux>>

\* model.predict_proba(X)[:, 1]: the column of the second class; with one
\* class in classes_ there is no such column (IndexError).
HasSecondColumn(m) == Cardinality(m.classes) >= 2

\* The predict call returns.  A model that a fit changed while the
\* prediction ran yields a response computed from a half-updated model.
PredictEnd(t, u) ==
    /\ pc[t] = "predict" /\ Delivered
    /\ Respond(t,
            IF loc[t].touched THEN "garbled"
            ELSE IF ~HasSecondColumn(model) THEN "error"
            ELSE IF u = "tags" THEN "personalized"
            ELSE "ranked")
    /\ loc' = [loc EXCEPT ![t] = Begin(t, loc[t].handler)]
    /\ UNCHANGED <<app, phase, db, model, model_trained, nreq>>
    /\ UNCHANGED <<rank, unit, store, aux>>

(***************************************************************************)
(* Command line application (main.py): one thread, "t1".  pc is "idle" at  *)
(* the top of the rating loop and "rating" inside the for loop over the    *)
(* fetched list; an uncaught exception ends the process.                   *)
(***************************************************************************)
CliThread == "t1"

\* VideoInspirationFinderApp.__init__ and search_and_save_coding_videos: the
\* videos found are stored, each with its features; nothing catches an
\* exception on the way.
search_and_save_coding_videos(found) ==
    /\ app = "cli" /\ phase = "boot"
    /\ \E o \in _save_videos_with_features(videos, features, found, {}) :
           /\ videos' = o.videos
           /\ features' = o.features
           /\ phase' = IF o.raised THEN "crashed" ELSE "serving"
    /\ UNCHANGED <<app, base, prefs, model, model_trained, pc, loc, resp, nreq>>
    /\ UNCHANGED <<rank, unit, store, aux>>

\* The videos a list can show: unrated, and on the trained path with features.
Ratable(kind) ==
    {v \in videos : BagSize(prefs[v]) = 0 /\ (kind = "ranked" => v \in features)}

\* _get_videos_for_rating at the top of the while loop, then has_videos_to_rate.
_get_videos_for_rating ==
    /\ app = "cli" /\ phase = "serving" /\ pc[CliThread] = "idle"
    /\ LET truth == IF model_trained THEN Truth(model) ELSE "false"
           kind == IF truth = "true" THEN "ranked" ELSE "fallback"
       IN IF truth = "raise" \/ (truth = "true" /\ Ratable(kind) # {} /\ ~HasSecondColumn(model))
          THEN /\ phase' = "crashed"
               /\ resp' = [resp EXCEPT ![CliThread] = "error"]
               /\ UNCHANGED pc
          ELSE /\ resp' = [resp EXCEPT ![CliThread] = kind]
               /\ IF Ratable(kind) = {}
                  THEN phase' = "exited" /\ UNCHANGED pc
                  ELSE phase' = phase /\ pc' = [pc EXCEPT ![CliThread] = "rating"]
    /\ UNCHANGED <<app, db, model, model_trained, loc, nreq>>
    /\ UNCHANGED <<rank, unit, store, aux>>

\* _try_train_model, as the state it leaves: <<model, model_trained, outcome>>.
AlreadyTrained(trained) == trained

_try_train_model(m, trained, b, d) ==
    IF AlreadyTrained(trained) THEN <<m, trained, "none">>
    ELSE LET obj == IF ~m.exists THEN create_recommendation_model ELSE m
             how == train_model_on_user_preferences(b, d)
         IN IF how = "fit"
            THEN <<FitEnd(FitBegin(obj, b, d), d), AfterTraining(trained, TRUE), "true">>
            ELSE IF how = "false" THEN <<obj, AfterTraining(trained, FALSE), how>>
            ELSE <<obj, trained, how>>

\* One pass of the for loop: the user answers y or n, the rating is saved and
\* _try_train_model runs.
cli_rate(v, l) ==
    /\ app = "cli" /\ phase = "serving" /\ pc[CliThread] = "rating"
    /\ nreq < MaxRequests
    /\ v \in Ratable(resp[CliThread])
    /\ l \in {"like", "dislike"}
    /\ prefs' = save_video_rating_to_database(prefs, v, l)
    /\ nreq' = nreq + 1
    /\ LET training_data == get_training_data_from_database(prefs', features)
           r == _try_train_model(model, model_trained, base, training_data)
       IN /\ model' = r[1]
          /\ model_trained' = r[2]
          /\ loc' = [loc EXCEPT ![CliThread] =
                        [Begin(CliThread, "cli") EXCEPT
                            !.data = IF r[3] = "none" THEN EmptyData ELSE training_data,
                            !.outcome = r[3]]]
          /\ phase' = IF r[3] = "raise" THEN "crashed" ELSE phase
    /\ UNCHANGED <<app, base, videos, features, pc, resp>>
    /\ UNCHANGED <<rank, unit, store, aux>>

\* The for loop has gone through the list: back to the top of the while loop.
cli_next_round ==
    /\ app = "cli" /\ phase = "serving" /\ pc[CliThread] = "rating"
    /\ Ratable(resp[CliThread]) = {}
    /\ pc' = [pc EXCEPT ![CliThread] = "idle"]
    /\ UNCHANGED <<app, phase, db, model, model_trained, loc, resp, nreq>>
    /\ UNCHANGED <<rank, unit, store, aux>>

\* The user answers q.
cli_quit ==
    /\ app = "cli" /\ phase = "serving" /\ pc[CliThread] = "rating"
    /\ phase' = "exited"
    /\ UNCHANGED <<app, db, model, model_trained, pc, loc, resp, nreq>>
    /\ UNCHANGED <<rank, unit, store, aux>>

(***************************************************************************)
(* The ranking pipeline as functions of their inputs.  Probabilities and   *)
(* similarities are in thousandths (1000 is 1.0), boost factors too.       *)
(***************************************************************************)
Views == {50000, 500000}

\* model.predict_proba(X)[:, 1] of a fitted binary classifier, in thousandths
Probs == {600, 1000}

\* cosine similarities between the user profile and a video, in thousandths:
\* 0 when they share no term, and never above 1
Sims == {0, 250, 600}

Min(a, b) == IF a <= b THEN a ELSE b

Orders(n) == {q \in [1..n -> 1..n] : \A i, j \in 1..n : i # j => q[i] # q[j]}

Pick(s, q) == [i \in 1..Len(q) |-> s[q[i]]]

Desc(s, k) == \A i, j \in 1..Len(s) : i < j => s[i][k] >= s[j][k]

\* s[:n] / DataFrame.head(n) for n >= 0
Take(s, n) == SubSeq(s, 1, Min(n, Len(s)))

\* ORDER BY k DESC, and sort_values(ascending=False) with its default
\* kind='quicksort': a descending order; the order among equal keys is
\* not determined.
SortValues(s, k) == {Pick(s, q) : q \in {r \in Orders(Len(s)) : Desc(Pick(s, r), k)}}

\* list.sort(key=..., reverse=True) and argsort(kind='mergesort'):
\* descending, equal keys keep their relative order.
StableSort(s, k) ==
    Pick(s, CHOOSE q \in Orders(Len(s)) :
                /\ Desc(Pick(s, q), k)
                /\ \A i, j \in 1..Len(s) :
                       (i < j /\ s[q[i]][k] = s[q[j]][k]) => q[i] < q[j])

\* A ranker that keeps the first n rows without looking at the scores.
FirstRows(s, n, k) == {Take(s, n)}

\* DataFrame.nlargest(n, k), keep='first': nothing for n <= 0; for
\* n >= len the whole frame through sort_values; otherwise the n largest
\* through a mergesort of the rows not below the n-th largest value.
nlargest(s, n, k) ==
    IF n <= 0 THEN {<<>>}
    ELSE IF n >= Len(s) THEN {Take(r, n) : r \in SortValues(s, k)}
    ELSE {Take(StableSort(s, k), n)}

Scored(vf) ==
    [i \in 1..Len(vf) |-> [id |-> vf[i].id, view_count |-> vf[i].view_count,
                           like_probability |-> vf[i].p]]

predict_video_preferences_with_model(vf, n) ==
    IF vf = <<>> THEN {<<>>} ELSE nlargest(Scored(vf), n, "like_probability")

\* SELECT v.*, vf.* ... WHERE p.video_id IS NULL ORDER BY v.view_count DESC
get_unrated_videos_with_features_from_database(tbl) == SortValues(tbl, "view_count")

\* The same query without its ORDER BY.
UnorderedUnrated(tbl, limit) ==
    {[i \in 1..Len(Take(tbl, limit)) |-> [id |-> tbl[i].id, view_count |-> tbl[i].view_count]]}

\* SELECT v.* ... WHERE p.video_id IS NULL ORDER BY v.view_count DESC LIMIT ?
get_unrated_videos_from_database(tbl, limit) ==
    {[i \in 1..Len(Take(r, limit)) |-> [id |-> r[i].id, view_count |-> r[i].view_count]] :
        r \in SortValues(tbl, "view_count")}

DEFAULT_LIKE_PROBABILITY == 500

FALLBACK_LIMIT == 24

\* video['like_probability'] = 0.5
WithDefault(vs) ==
    [i \in 1..Len(vs) |-> [id |-> vs[i].id, view_count |-> vs[i].view_count,
                           like_probability |-> DEFAULT_LIKE_PROBABILITY]]

Ids(s) == {s[i].id : i \in 1..Len(s)}

\* A score that ignores the content.
MlScoreOnly(ml_score, content_score) == ml_score

\* enhanced_score = ml_score * 0.7 + content_score * 0.3
EnhancedScore(ml_score, content_score) == (ml_score * 7 + content_score * 3) \div 10

\* A stage that hands back its entries twice over.
EnhanceAndRepeat(recs, sim) == recs \o recs

\* _enhance_with_content_similarity past its guards and the vectorizer: blend
\* every entry, attach content_similarity, re-sort.
_enhance_with_content_similarity(recs, sim) ==
    StableSort(
        [i \in 1..Len(recs) |->
            LET ml_score == recs[i].like_probability
                content_score == Min(sim[recs[i].id] * 2, 1000)
            IN [id |-> recs[i].id, view_count |-> recs[i].view_count,
                like_probability |-> EnhancedScore(ml_score, content_score),
                content_similarity |-> sim[recs[i].id]]],
        "like_probability")

Channels == {"a", "b"}

Titles == {"Learn Python coding", "TECH news", "How to cook", "Guitar lesson"}

\* The keywords of _calculate_pattern_boost that title.lower() contains.
KeywordsIn(t) ==
    CASE t = "Learn Python coding" -> {"coding", "learn"}
      [] t = "TECH news" -> {"tech"}
      [] t = "How to cook" -> {"how to"}
      [] OTHER -> {}

ViewPreferences == {"low", "moderate", "high"}

Topics == {"tech", "tutorial"}

\* patterns as _analyze_engagement_patterns sets them up before it reads
\* anything
DefaultPatterns ==
    [popular_channels |-> {}, view_count_preference |-> "moderate",
     topic_preferences |-> {}]

\* A boost without the cap.
UncappedBoost(b) == b

\* min(boost, 1.5), boost in millionths
CapBoost(b) == Min(b, 1500000)

\* A boost that ignores the patterns.
FlatBoost(recommendation, patterns) == 1000000

\* _calculate_pattern_boost: the factors in tenths, tenths, hundredths and
\* hundredths, their product in millionths.
_calculate_pattern_boost(recommendation, patterns) ==
    LET channel == recommendation.channel_name
        view_count == recommendation.view_count
        view_pref == patterns.view_count_preference
        kws == KeywordsIn(recommendation.title)
        f_channel == IF channel \in patterns.popular_channels THEN 12 ELSE 10
        f_views ==
            IF view_pref = "high" /\ view_count > 1000000 THEN 11
            ELSE IF view_pref = "moderate" /\ 100000 <= view_count /\ view_count <= 1000000 THEN 11
            ELSE IF view_pref = "low" /\ view_count < 100000 THEN 11
            ELSE 10
        f_tech ==
            IF "tech" \in patterns.topic_preferences
               /\ kws \cap {"programming", "coding", "tech", "software"} # {}
            THEN 115 ELSE 100
        f_tutorial ==
            IF "tutorial" \in patterns.topic_preferences
               /\ kws \cap {"tutorial", "learn", "guide", "how to"} # {}
            THEN 115 ELSE 100
    IN CapBoost(f_channel * f_views * f_tech * f_tutorial)

\* channel_name and title of a stored video; no pipeline step changes them
channel_name(vid) == IF vid % 2 = 1 THEN "a" ELSE "b"

title(vid) ==
    CASE vid = 1 -> "Learn Python coding"
      [] vid = 2 -> "Guitar lesson"
      [] vid = 3 -> "How to cook"
      [] OTHER -> "TECH news"

Row(rec) ==
    [channel_name |-> channel_name(rec.id), view_count |-> rec.view_count,
     title |-> title(rec.id)]

\* _analyze_engagement_patterns: what it derives from well-formed user data;
\* on an exception it prints and returns the patterns it has so far, the
\* defaults when the data fails it in the loop over the liked videos.
_analyze_engagement_patterns(ud) ==
    IF ud.wellformed THEN ud.patterns ELSE DefaultPatterns

\* A boost that takes the product for the new probability without the clamp.
UnclampedProduct(p, b) == (p * b) \div 1000000

\* min(current_prob * boost_factor, 1.0)
BoostedProbability(p, b) == Min((p * b) \div 1000000, 1000)

\* _apply_engagement_patterns past `if not user_data`: boost every entry,
\* attach pattern_boost, re-sort.
_apply_engagement_patterns(recs, patterns) ==
    StableSort(
        [i \in 1..Len(recs) |->
            LET boost_factor == _calculate_pattern_boost(Row(recs[i]), patterns)
            IN [f \in DOMAIN recs[i] \cup {"pattern_boost"} |->
                   IF f = "pattern_boost" THEN boost_factor
                   ELSE IF f = "like_probability"
                   THEN BoostedProbability(recs[i].like_probability, boost_factor)
                   ELSE recs[i][f]]],
        "like_probability")

MaxPool == 2        \* bound: unrated stored videos with features

MaxTopN == 2        \* bound: recommendations asked for

Tables == UNION {[1..n -> [view_count : Views, p : Probs]] : n \in 0..MaxPool}

WithIds(t) == [i \in 1..Len(t) |-> [id |-> i, view_count |-> t[i].view_count, p |-> t[i].p]]

\* No classifier lifecycle is running.
LifeIdle ==
    /\ app = "dashboard" /\ phase = "serving"
    /\ base = ZeroBag /\ prefs = EmptyData /\ videos = {} /\ features = {}
    /\ model = NoModel /\ model_trained = FALSE
    /\ pc = [t \in Threads |-> "idle"] /\ loc = [t \in Threads |-> IdleLoc]
    /\ resp = [t \in Threads |-> "none"] /\ nreq = 0

\* get_cached_user_data gives None: nothing cached, an entry older than
\* 24 hours, or an exception it caught.
NoUserData == [cached |-> FALSE, wellformed |-> TRUE, patterns |-> DefaultPatterns]

\* Cached data with a liked video the analysis cannot read.
MalformedUserData == [cached |-> TRUE, wellformed |-> FALSE, patterns |-> DefaultPatterns]

\* the patterns the analysis derives in the runs of the pipeline
RankPatterns ==
    {DefaultPatterns,
     [popular_channels |-> {"a"}, view_count_preference |-> "low",
      topic_preferences |-> {"tech", "tutorial"}]}

UserDatas ==
    {NoUserData, MalformedUserData}
        \cup {[cached |-> TRUE, wellformed |-> TRUE, patterns |-> q] : q \in RankPatterns}

InitRank ==
    /\ LifeIdle
    /\ UnitIdle
    /\ StoreIdle
    /\ AuxIdle
    /\ table \in {WithIds(t) : t \in Tables}
    /\ top_n \in 0..MaxTopN
    /\ rmodel \in {"none", "fitted"}
    /\ youtube_tags \in BOOLEAN
    /\ vocabulary \in BOOLEAN
    /\ user_data \in UserDatas
    /\ base_recommendations = <<>>
    /\ cands = <<>> /\ out = <<>> /\ step = "input" /\ invoked = FALSE

\* DashboardAPI.get_recommendations, else branch.
Fallback ==
    /\ step = "input" /\ rmodel = "none"
    /\ \E vs \in get_unrated_videos_from_database(table, FALLBACK_LIMIT) :
           out' = WithDefault(vs)
    /\ step' = "fallback"
    /\ UNCHANGED <<given, base_recommendations, cands, invoked>>
    /\ UNCHANGED <<life, unit, store, aux>>

\* DashboardAPI.get_recommendations, trained branch: the candidate frame.
LoadCandidates ==
    /\ step = "input" /\ rmodel = "fitted"
    /\ cands' \in get_unrated_videos_with_features_from_database(table)
    /\ step' = "queried"
    /\ UNCHANGED <<given, base_recommendations, out, invoked>>
    /\ UNCHANGED <<life, unit, store, aux>>

\* Standard ML recommendations: predict_video_preferences_with_model(model,
\* video_features, top_n).
Rank ==
    /\ step = "queried"
    /\ out' \in predict_video_preferences_with_model(cands, top_n)
    /\ invoked' = TRUE
    /\ step' = "ranked"
    /\ UNCHANGED <<given, base_recommendations, cands>>
    /\ UNCHANGED <<life, unit, store, aux>>

\* A window of exactly the number asked for.
NarrowWindow(n) == n

\* the window of base predictions the enhancer asks the ranker for
Window(n) == n * 2

\* get_enhanced_recommendations: base predictions with top_n * 2.
RankBase ==
    /\ step = "queried"
    /\ out' \in predict_video_preferences_with_model(cands, Window(top_n))
    /\ base_recommendations' = out'
    /\ invoked' = TRUE
    /\ step' = "base"
    /\ UNCHANGED <<given, cands>>
    /\ UNCHANGED <<life, unit, store, aux>>

\* get_enhanced_recommendations: `if not youtube_tags: return
\* base_recommendations[:top_n]`.
NoTags ==
    /\ step = "base" /\ ~youtube_tags
    /\ out' = Take(out, top_n)
    /\ step' = "final"
    /\ UNCHANGED <<given, base_recommendations, cands, invoked>>
    /\ UNCHANGED <<life, unit, store, aux>>

\* Stage A, _enhance_with_content_similarity: with an empty frame, or when the
\* vectorizer raises on an empty vocabulary, it hands the list back; else it
\* blends and re-sorts.
StageA ==
    /\ step = "base" /\ youtube_tags
    /\ IF cands = <<>> \/ ~vocabulary
       THEN out' = out
       ELSE \E sim \in [Ids(out) -> Sims] :
                out' = _enhance_with_content_similarity(out, sim)
    /\ step' = "stageA"
    /\ UNCHANGED <<given, base_recommendations, cands, invoked>>
    /\ UNCHANGED <<life, unit, store, aux>>

\* Stage B, _apply_engagement_patterns: without cached user data it hands the
\* list back; else it boosts by the patterns the analysis returns and re-sorts.
StageB ==
    /\ step = "stageA"
    /\ IF ~user_data.cached
       THEN out' = out
       ELSE out' = _apply_engagement_patterns(out, _analyze_engagement_patterns(user_data))
    /\ step' = "stageB"
    /\ UNCHANGED <<given, base_recommendations, cands, invoked>>
    /\ UNCHANGED <<life, unit, store, aux>>

\* get_enhanced_recommendations: return final_recommendations[:top_n].
Truncate ==
    /\ step = "stageB"
    /\ out' = Take(out, top_n)
    /\ step' = "final"
    /\ UNCHANGED <<given, base_recommendations, cands, invoked>>
    /\ UNCHANGED <<life, unit, store, aux>>

NextRank ==
    \/ Fallback
    \/ LoadCandidates
    \/ Rank
    \/ RankBase
    \/ NoTags
    \/ StageA
    \/ StageB
    \/ Truncate

SpecRank == InitRank /\ [][NextRank]_vars

(***************************************************************************)
(* The boost of one entry: every entry against every set of patterns.      *)
(***************************************************************************)
\* view counts on both sides of the two bucket limits
BoostViews == {0, 99999, 100000, 1000000, 1000001}

\* like_probability values on entry to Stage B, in thousandths
BoostProbs == {0, 5, 700, 1000}

Recommendations == [channel_name : Channels, view_count : BoostViews, title : Titles]

Patterns ==
    [popular_channels : SUBSET Channels, view_count_preference : ViewPreferences,
     topic_preferences : SUBSET Topics]

InitBoost ==
    /\ LifeIdle
    /\ RankIdle
    /\ StoreIdle
    /\ AuxIdle
    /\ unit_rec \in Recommendations
    /\ unit_patterns \in Patterns
    /\ unit_prob \in BoostProbs
    /\ unit_boost = 0 /\ unit_new = -1

\* boost_factor = self._calculate_pattern_boost(rec, patterns)
CalculateBoost ==
    /\ unit_boost = 0
    /\ unit_boost' = _calculate_pattern_boost(unit_rec, unit_patterns)
    /\ UNCHANGED <<unit_rec, unit_patterns, unit_prob, unit_new>>
    /\ UNCHANGED <<life, rank, store, aux>>

\* boosted_prob = min(current_prob * boost_factor, 1.0)
ApplyBoost ==
    /\ unit_boost # 0 /\ unit_new = -1
    /\ unit_new' = BoostedProbability(unit_prob, unit_boost)
    /\ UNCHANGED <<unit_rec, unit_patterns, unit_prob, unit_boost>>
    /\ UNCHANGED <<life, rank, store, aux>>

NextBoost ==
    \/ CalculateBoost
    \/ ApplyBoost

SpecBoost == InitBoost /\ [][NextBoost]_vars

(***************************************************************************)
(* The dashboard routes that save and delete videos, one request at a      *)
(* time, on a database that holds no ratings.                              *)
(***************************************************************************)
\* ids create_search_session can give a session (uuid4)
Sessions == {"s1", "s2"}

\* SELECT id FROM videos WHERE search_session_id = ?: the column is added
\* by setup_database_tables and no statement gives it a value.
VideosOfSession(vs, s) == {}

InitStore ==
    /\ app = "dashboard" /\ phase = "serving"
    /\ base = ZeroBag /\ prefs = EmptyData
    /\ videos \in SUBSET Named /\ features = videos
    /\ model = NoModel /\ model_trained = FALSE
    /\ pc = [t \in Threads |-> "idle"] /\ loc = [t \in Threads |-> IdleLoc]
    /\ resp = [t \in Threads |-> "none"] /\ nreq = 0
    /\ RankIdle
    /\ UnitIdle
    /\ sessions \in SUBSET Sessions
    /\ last_op = NoOp
    /\ AuxIdle

\* POST /api/search-topic: create the session, search, and with any unique
\* video found save the batch with its features; an exception answers 500.
search_topic(s, batch, bad) ==
    /\ s \notin sessions
    /\ sessions' = sessions \cup {s}
    /\ IF batch = {}
       THEN /\ UNCHANGED <<videos, features>>
            /\ last_op' = [kind |-> "search", batch |-> batch, bad |-> bad, outcome |-> "ok"]
       ELSE \E o \in _save_videos_with_features(videos, features, batch, bad) :
                /\ videos' = o.videos
                /\ features' = o.features
                /\ last_op' = [kind |-> "search", batch |-> batch, bad |-> bad,
                               outcome |-> IF o.raised THEN "error" ELSE "ok"]
    /\ UNCHANGED <<app, phase, base, prefs, model, model_trained, pc, loc, resp, nreq>>
    /\ UNCHANGED <<rank, unit, aux>>

\* POST /api/add-video-by-url and POST /api/import-youtube-video with fewer
\* ratings stored than training needs: 409 for a stored, liked video; else
\* save the video, its features and a liked rating; an exception answers 500.
add_video_by_url(v, bad) ==
    /\ get_rated_count_from_database(base, prefs) + 1 < ML_TRAINING_THRESHOLD
    /\ IF v \in videos /\ prefs[v]["like"] > 0
       THEN /\ last_op' = [kind |-> "add", batch |-> {v}, bad |-> bad, outcome |-> "conflict"]
            /\ UNCHANGED <<videos, features, prefs>>
       ELSE \E o \in _save_videos_with_features(videos, features, {v}, bad) :
                /\ videos' = o.videos
                /\ features' = o.features
                /\ prefs' = IF o.raised THEN prefs
                            ELSE save_video_rating_to_database(prefs, v, "like")
                /\ last_op' = [kind |-> "add", batch |-> {v}, bad |-> bad,
                               outcome |-> IF o.raised THEN "error" ELSE "ok"]
    /\ UNCHANGED <<app, phase, base, model, model_trained, pc, loc, resp, nreq>>
    /\ UNCHANGED <<rank, unit, sessions, aux>>

\* DELETE /api/delete-search-session/<session_id>: 404 for an unknown
\* session; else, with remove_videos, delete the features, ratings and rows
\* of the session's videos, and delete the session.
delete_search_session(s, remove_videos) ==
    /\ IF s \notin sessions
       THEN /\ last_op' = [kind |-> "delete", batch |-> {}, bad |-> {}, outcome |-> "notfound"]
            /\ UNCHANGED <<videos, features, prefs, sessions>>
       ELSE LET video_ids == IF remove_videos THEN VideosOfSession(videos, s) ELSE {}
            IN /\ features' = features \ video_ids
               /\ prefs' = [v \in Named |-> IF v \in video_ids THEN ZeroBag ELSE prefs[v]]
               /\ videos' = videos \ video_ids
               /\ sessions' = sessions \ {s}
               /\ last_op' = [kind |-> "delete", batch |-> video_ids, bad |-> {},
                              outcome |-> "ok"]
    /\ UNCHANGED <<app, phase, base, model, model_trained, pc, loc, resp, nreq>>
    /\ UNCHANGED <<rank, unit, aux>>

NextStore ==
    \/ \E s \in Sessions, batch \in SUBSET Named, bad \in SUBSET Named :
           bad \subseteq batch /\ search_topic(s, batch, bad)
    \/ \E v \in Named, bad \in SUBSET Named : bad \subseteq {v} /\ add_video_by_url(v, bad)
    \/ \E s \in Sessions, remove_videos \in BOOLEAN : delete_search_session(s, remove_videos)

SpecStore == InitStore /\ [][NextStore]_vars

(***************************************************************************)
(* The feature extractor, taken by itself: a text is the sequence of its   *)
(* characters.                                                             *)
(***************************************************************************)
\* str.lower()
LowerChar(c) ==
    LET UpperCase ==
            <<"A", "B", "C", "D", "E", "F", "G", "H", "I", "J", "K", "L", "M", "N", "O", "P", "Q", "R", "S", "T", "U", "V", "W", "X", "Y", "Z">>
        LowerCase ==
            <<"a", "b", "c", "d", "e", "f", "g", "h", "i", "j", "k", "l", "m", "n", "o", "p", "q", "r", "s", "t", "u", "v", "w", "x", "y", "z">>
    IN IF \E i \in 1..Len(UpperCase) : UpperCase[i] = c
       THEN LowerCase[CHOOSE i \in 1..Len(UpperCase) : UpperCase[i] = c]
       ELSE c

Lower(text) == [i \in 1..Len(text) |-> LowerChar(text[i])]

\* kw in text
In(kw, text) ==
    \E i \in 0..(Len(text) - Len(kw)) : SubSeq(text, i + 1, i + Len(kw)) = kw

Max(a, b) == IF a >= b THEN a ELSE b

\* a / b of two ints: the quotient as a fraction, or ZeroDivisionError
ZeroDivisionError == [raised |-> TRUE]

TrueDiv(a, b) == IF b = 0 THEN ZeroDivisionError ELSE [raised |-> FALSE, num |-> a, den |-> b]

ViewCountItself(view_count) == view_count

\* max(video['view_count'], 1)
Denominator(view_count) == Max(view_count, 1)

calculate_basic_video_metrics(video) ==
    LET view_like_ratio == TrueDiv(video.like_count, Denominator(video.view_count))
        engagement_score == TrueDiv(video.like_count + video.comment_count,
                                    Denominator(video.view_count))
    IN IF view_like_ratio.raised \/ engagement_score.raised THEN ZeroDivisionError
       ELSE [raised |-> FALSE,
             title_length |-> Len(video.title),
             description_length |-> Len(video.description),
             view_like_ratio |-> view_like_ratio,
             engagement_score |-> engagement_score]

detect_keyword_features_in_video(title_text, description) ==
    LET tutorial_keywords ==
            {<<"t", "u", "t", "o", "r", "i", "a", "l">>,
             <<"l", "e", "a", "r", "n">>,
             <<"c", "o", "u", "r", "s", "e">>,
             <<"g", "u", "i", "d", "e">>,
             <<"h", "o", "w", " ", "t", "o">>}
        time_keywords ==
            {<<"2", "4", " ", "h", "o", "u", "r", "s">>,
             <<"1", " ", "d", "a", "y">>,
             <<"1", " ", "h", "o", "u", "r">>,
             <<"m", "i", "n", "u", "t", "e", "s">>,
             <<"s", "e", "c", "o", "n", "d", "s">>,
             <<"c", "r", "a", "s", "h", " ", "c", "o", "u", "r", "s", "e">>}
        beginner_keywords ==
            {<<"b", "e", "g", "i", "n", "n", "e", "r">>,
             <<"s", "t", "a", "r", "t">>,
             <<"b", "a", "s", "i", "c", "s">>,
             <<"i", "n", "t", "r", "o", "d", "u", "c", "t", "i", "o", "n">>,
             <<"g", "e", "t", "t", "i", "n", "g", " ", "s", "t", "a", "r", "t", "e", "d">>}
        ai_keywords ==
            {<<"a", "i">>,
             <<"a", "r", "t", "i", "f", "i", "c", "i", "a", "l", " ", "i", "n", "t", "e", "l", "l", "i", "g", "e", "n", "c", "e">>,
             <<"m", "a", "c", "h", "i", "n", "e", " ", "l", "e", "a", "r", "n", "i", "n", "g">>,
             <<"n", "e", "u", "r", "a", "l", " ", "n", "e", "t", "w", "o", "r", "k">>}
        challenge_keywords ==
            {<<"c", "h", "a", "l", "l", "e", "n", "g", "e">>,
             <<"b", "u", "i", "l", "d">>,
             <<"c", "r", "e", "a", "t", "e">>,
             <<"p", "r", "o", "j", "e", "c", "t">>,
             <<"c", "o", "d", "i", "n", "g">>}
    IN [has_tutorial |-> \E kw \in tutorial_keywords : In(kw, title_text) \/ In(kw, description),
        has_time_constraint |-> \E kw \in time_keywords : In(kw, title_text),
        has_beginner |-> \E kw \in beginner_keywords : In(kw, title_text) \/ In(kw, description),
        has_ai |-> \E kw \in ai_keywords : In(kw, title_text) \/ In(kw, description),
        has_challenge |-> \E kw \in challenge_keywords : In(kw, title_text)]

calculate_title_sentiment_score(title_text) ==
    LET positive_words ==
            {<<"a", "m", "a", "z", "i", "n", "g">>,
             <<"b", "e", "s", "t">>,
             <<"a", "w", "e", "s", "o", "m", "e">>,
             <<"g", "r", "e", "a", "t">>,
             <<"p", "e", "r", "f", "e", "c", "t">>,
             <<"l", "o", "v", "e">>,
             <<"i", "n", "c", "r", "e", "d", "i", "b", "l", "e">>}
        negative_words ==
            {<<"h", "a", "r", "d">>,
             <<"d", "i", "f", "f", "i", "c", "u", "l", "t">>,
             <<"i", "m", "p", "o", "s", "s", "i", "b", "l", "e">>,
             <<"f", "a", "i", "l", "e", "d">>,
             <<"b", "r", "o", "k", "e">>,
             <<"w", "r", "o", "n", "g">>}
    IN Cardinality({word \in positive_words : In(word, title_text)})
           - Cardinality({word \in negative_words : In(word, title_text)})

\* the returned tuple, its ten entries named; the call raises if the
\* metrics do
FeatureVector(video) ==
    LET title_text == Lower(video.title)
        description == Lower(video.description)
        basic_metrics == calculate_basic_video_metrics(video)
        keyword_features == detect_keyword_features_in_video(title_text, description)
        sentiment_score == calculate_title_sentiment_score(title_text)
    IN IF basic_metrics.raised THEN [called |-> TRUE, raised |-> TRUE]
       ELSE [called |-> TRUE, raised |-> FALSE,
             basic_metrics |-> basic_metrics,
             keyword_features |-> keyword_features,
             sentiment_score |-> sentiment_score]

VideoLowered(video) ==
    [video EXCEPT !.title = Lower(@), !.description = Lower(@)]

\* The caller's dict after the call: title and description are lowered
\* into locals, no key of the dict is assigned.
VideoAfterCall(video) == video

\* the videos looked at: upper and lower case, keywords in title and
\* description, no views, and the counts 2,000,000 / 100,000 / 5,000
FeatVideos ==
    [title : {<<>>, <<"L", "e", "a", "r", "n", " ", "A", "I">>, <<"H", "A", "R", "D", " ", "b", "u", "i", "l", "d">>},
     description : {<<>>, <<"M", "L", " ", "b", "a", "s", "i", "c", "s">>},
     view_count : {0, 1, 2000000}, like_count : {0, 1, 100000}, comment_count : {0, 5000}]

\* calls on other videos between the two calls looked at
MaxBetween == 2

InitFeat ==
    /\ LifeIdle
    /\ RankIdle
    /\ UnitIdle
    /\ StoreIdle
    /\ ServeIdle
    /\ ProfileIdle
    /\ OAuthIdle
    /\ feat_video \in FeatVideos
    /\ feat_given = feat_video
    /\ feat_first = NoFeatures /\ feat_between = 0 /\ feat_second = NoFeatures

\* features = extract_all_features_from_video(video), the first time
FirstCall ==
    /\ feat_first = NoFeatures
    /\ feat_first' = FeatureVector(feat_video)
    /\ feat_video' = VideoAfterCall(feat_video)
    /\ UNCHANGED <<feat_given, feat_between, feat_second>>
    /\ UNCHANGED <<life, rank, unit, store, serve, profile, oauth>>

\* a call on some other video dict, its result dropped
OtherCall(other) ==
    /\ feat_first # NoFeatures /\ feat_second = NoFeatures
    /\ feat_between < MaxBetween
    /\ FeatureVector(other).called
    /\ feat_between' = feat_between + 1
    /\ UNCHANGED <<feat_video, feat_given, feat_first, feat_second>>
    /\ UNCHANGED <<life, rank, unit, store, serve, profile, oauth>>

\* the call again, on the same dict
SecondCall ==
    /\ feat_first # NoFeatures /\ feat_second = NoFeatures
    /\ feat_second' = FeatureVector(feat_video)
    /\ feat_video' = VideoAfterCall(feat_video)
    /\ UNCHANGED <<feat_given, feat_first, feat_between>>
    /\ UNCHANGED <<life, rank, unit, store, serve, profile, oauth>>

NextFeat ==
    \/ FirstCall
    \/ \E other \in FeatVideos : OtherCall(other)
    \/ SecondCall

SpecFeat == InitFeat /\ [][NextFeat]_vars

(***************************************************************************)
(* Ratings and recommendation requests, one after the other: every request *)
(* reads its candidates from the store as the ratings have left it.        *)
(***************************************************************************)
\* A query that returns every stored video.
AllRows(cat, r) == cat

\* FROM videos v ... LEFT JOIN preferences p ON v.id = p.video_id
\* WHERE p.video_id IS NULL
WhereUnrated(cat, r) == SelectSeq(cat, LAMBDA row : row.id \notin r)

\* the steps at which a request has its answer
Answered == {"fallback", "ranked", "final"}

ServeUserDatas ==
    {NoUserData,
     [cached |-> TRUE, wellformed |-> TRUE,
      patterns |-> [popular_channels |-> {"a"}, view_count_preference |-> "low",
                    topic_preferences |-> {"tech", "tutorial"}]]}

InitServe ==
    /\ LifeIdle
    /\ UnitIdle
    /\ StoreIdle
    /\ FeatIdle
    /\ ProfileIdle
    /\ OAuthIdle
    /\ catalog \in {WithIds(t) : t \in Tables}
    /\ rated = {} /\ ever_rated = {}
    /\ table = <<>>
    /\ top_n \in 1..MaxTopN
    /\ rmodel \in {"none", "fitted"}
    /\ youtube_tags \in BOOLEAN
    /\ vocabulary = TRUE
    /\ user_data \in ServeUserDatas
    /\ base_recommendations = <<>>
    /\ cands = <<>> /\ out = <<>> /\ step = "db" /\ invoked = FALSE

\* a rating is saved: INSERT INTO preferences
SaveRating(v) ==
    /\ step = "db"
    /\ rated' = rated \cup {v}
    /\ ever_rated' = ever_rated \cup {v}
    /\ UNCHANGED <<catalog, feat, profile, oauth>>
    /\ UNCHANGED <<life, rank, unit, store>>

\* a rating is removed: DELETE FROM preferences WHERE video_id = ?
RemoveRating(v) ==
    /\ step = "db"
    /\ v \in rated
    /\ rated' = rated \ {v}
    /\ UNCHANGED <<catalog, ever_rated, feat, profile, oauth>>
    /\ UNCHANGED <<life, rank, unit, store>>

\* a recommendation request runs the WHERE clause of its candidate query
ReadUnrated ==
    /\ step = "db"
    /\ table' = WhereUnrated(catalog, rated)
    /\ step' = "input"
    /\ UNCHANGED <<top_n, rmodel, youtube_tags, vocabulary, user_data,
                   base_recommendations, cands, out, invoked>>
    /\ UNCHANGED <<life, unit, store, aux>>

\* the request has answered; the next one starts from the store
Answer ==
    /\ step \in Answered
    /\ step' = "db"
    /\ table' = <<>> /\ base_recommendations' = <<>>
    /\ cands' = <<>> /\ out' = <<>> /\ invoked' = FALSE
    /\ UNCHANGED <<top_n, rmodel, youtube_tags, vocabulary, user_data>>
    /\ UNCHANGED <<life, unit, store, aux>>

NextServe ==
    \/ \E v \in Ids(catalog) : SaveRating(v)
    \/ \E v \in Ids(catalog) : RemoveRating(v)
    \/ ReadUnrated
    \/ NextRank
    \/ Answer

SpecServe == InitServe /\ [][NextServe]_vars

(***************************************************************************)
(* The engagement analysis of one user's cached YouTube data, and the      *)
(* boost of one candidate by the patterns it returns.                      *)
(***************************************************************************)
\* liked videos looked at
MaxLiked == 2

LikedVideos ==
    UNION {[1..n -> [channel_name : Channels, view_count : BoostViews]] : n \in 0..MaxLiked}

\* if view_count > 0: view_counts.append(view_count)
view_counts(liked) ==
    LET all == [i \in 1..Len(liked) |-> liked[i].view_count]
    IN SelectSeq(all, LAMBDA v : v > 0)

\* np.median(view_counts), doubled: the middle value, or the mean of the
\* two middle values
TwiceMedian(s) ==
    LET r == CHOOSE t \in {Pick(s, q) : q \in Orders(Len(s))} :
                 \A i, j \in 1..Len(t) : i < j => t[i] <= t[j]
        n == Len(r)
    IN IF n % 2 = 1 THEN 2 * r[(n + 1) \div 2] ELSE r[n \div 2] + r[n \div 2 + 1]

\* if median_views > 1000000: 'high' / elif median_views > 100000:
\* 'moderate' / else: 'low'
ViewCountPreference(twice_median) ==
    IF twice_median > 2 * 1000000 THEN "high"
    ELSE IF twice_median > 2 * 100000 THEN "moderate"
    ELSE "low"

\* channels with count >= 2
PopularChannels(liked) ==
    {c \in Channels : Cardinality({i \in 1..Len(liked) : liked[i].channel_name = c}) >= 2}

\* _analyze_engagement_patterns on well-formed data
AnalyzedPatterns(liked, subs) ==
    [popular_channels |-> IF liked = <<>> THEN {} ELSE PopularChannels(liked),
     view_count_preference |->
         IF view_counts(liked) = <<>> THEN DefaultPatterns.view_count_preference
         ELSE ViewCountPreference(TwiceMedian(view_counts(liked))),
     topic_preferences |-> subs]

InitProfile ==
    /\ LifeIdle
    /\ RankIdle
    /\ StoreIdle
    /\ FeatIdle
    /\ ServeIdle
    /\ OAuthIdle
    /\ liked_videos \in LikedVideos
    /\ subscriptions \in SUBSET Topics
    /\ analysed = FALSE
    /\ unit_rec \in Recommendations
    /\ unit_patterns = DefaultPatterns
    /\ unit_prob = 0 /\ unit_boost = 0 /\ unit_new = -1

\* patterns = self._analyze_engagement_patterns(user_data)
AnalyzeProfile ==
    /\ ~analysed
    /\ unit_patterns' = AnalyzedPatterns(liked_videos, subscriptions)
    /\ analysed' = TRUE
    /\ UNCHANGED <<unit_rec, unit_prob, unit_boost, unit_new>>
    /\ UNCHANGED <<liked_videos, subscriptions, feat, serve, oauth>>
    /\ UNCHANGED <<life, rank, store>>

\* boost_factor = self._calculate_pattern_boost(rec, patterns)
BoostCandidate ==
    /\ analysed /\ unit_boost = 0
    /\ unit_boost' = _calculate_pattern_boost(unit_rec, unit_patterns)
    /\ UNCHANGED <<unit_rec, unit_patterns, unit_prob, unit_new>>
    /\ UNCHANGED <<life, rank, store, aux>>

NextProfile ==
    \/ AnalyzeProfile
    \/ BoostCandidate

SpecProfile == InitProfile /\ [][NextProfile]_vars

(***************************************************************************)
(* The OAuth login flow of one browser: /auth/login and /auth/callback,    *)
(* one request at a time.                                                  *)
(***************************************************************************)
\* logins looked at
MaxLogins == 2

\* validations of one state value looked at
MaxValidations == 2

\* dashboard_api.oauth_service.handle_authorization_callback: user info, None,
\* or an exception
Exchanges == {"user", "none", "raise"}

InitOAuth ==
    /\ LifeIdle
    /\ RankIdle
    /\ UnitIdle
    /\ StoreIdle
    /\ FeatIdle
    /\ ServeIdle
    /\ ProfileIdle
    /\ OAuthIdle

\* GET /auth/login: state = secrets.token_urlsafe(32), kept in the session
\* and in table oauth_states
oauth_login(s) ==
    /\ s \notin issued
    /\ Cardinality(issued) < MaxLogins
    /\ issued' = issued \cup {s}
    /\ oauth_state' = s
    /\ oauth_states' = oauth_states \cup {s}
    /\ oauth_response' = "redirect to provider"
    /\ UNCHANGED <<validated, feat, serve, profile>>
    /\ UNCHANGED <<life, rank, unit, store>>

\* GET /auth/callback?state=s, sent with the browser's session cookie or
\* without it; exchange is what the token exchange gives once the state has
\* passed
oauth_callback(s, cookie, exchange) ==
    LET session_state == IF cookie THEN oauth_state ELSE "none"
        from_session == s = session_state
        from_database == ~from_session /\ s \in oauth_states
        state_valid == from_session \/ from_database
    IN /\ validated[s] < MaxValidations
       /\ oauth_states' = IF from_database THEN oauth_states \ {s} ELSE oauth_states
       /\ validated' = IF state_valid THEN [validated EXCEPT ![s] = @ + 1] ELSE validated
       /\ oauth_state' = IF state_valid /\ exchange = "user" /\ cookie
                         THEN "none" ELSE oauth_state
       /\ oauth_response' =
              IF ~state_valid THEN "400 Invalid state parameter"
              ELSE IF exchange = "none" THEN "400 OAuth authentication failed"
              ELSE IF exchange = "raise" THEN "500 OAuth callback failed"
              ELSE "redirect to dashboard"
       /\ UNCHANGED <<issued, feat, serve, profile>>
       /\ UNCHANGED <<life, rank, unit, store>>

NextOAuth ==
    \/ \E s \in States : oauth_login(s)
    \/ \E s \in States, cookie \in BOOLEAN, exchange \in Exchanges :
           oauth_callback(s, cookie, exchange)

SpecOAuth == InitOAuth /\ [][NextOAuth]_vars

Next ==
    \/ \E found \in SUBSET Named : search_and_save_coding_videos(found)
    \/ _get_videos_for_rating
    \/ \E v \in Named, l \in Labels : cli_rate(v, l)
    \/ cli_next_round
    \/ cli_quit
    \/ _initialize_model
    \/ \E t \in Threads, v \in Named, l \in Labels : rate_video(t, v, l)
    \/ \E t \in Threads, v \in Named : add_video(t, v)
    \/ \E t \in Threads, v \in Named : remove_liked_video(t, v)
    \/ \E t \in Threads : Gate(t)
    \/ \E t \in Threads : Train(t)
    \/ \E t \in Threads : FitDone(t)
    \/ \E t \in Threads : PredictBegin(t)
    \/ \E t \in Threads, u \in Users : PredictEnd(t, u)
    \/ \E t \in Threads : Return(t)

Spec == Init /\ [][Next]_vars

(***************************************************************************)
(* Claims on the classifier lifecycle.                                     *)
(***************************************************************************)
RatedCount == get_rated_count_from_database(base, prefs)

Rows(t) == RowCount(base, loc[t].data)

\* A step in which a training attempt of thread t ends without a fit: the
\* gate does not pass (or its truth test raises), the trainer returns False,
\* or the trainer raises.
AttemptEndsWithoutFit(t) ==
    \/ pc[t] = "gate" /\ pc'[t] = "done"
    \/ pc[t] = "train" /\ pc'[t] = "done"
    \/ loc'[t] # loc[t] /\ loc'[t].handler \in {"startup", "cli"}
                        /\ loc'[t].outcome # "true"

\* C1: once model_trained is true it stays true, and a later training
\* attempt that is skipped or that fails leaves the fitted model that is
\* being served exactly as it was.
C1_TrainedIsOneWay ==
    [][model_trained =>
          /\ model_trained'
          /\ \A t \in Threads : AttemptEndsWithoutFit(t) => model' = model]_vars

\* C1 witness: a removal has taken the rating count below the threshold
\* after the model was trained; the attempt was skipped and the fitted model
\* is still served.
C1_Witness ==
    \E t \in Threads :
        /\ pc[t] = "done" /\ loc[t].handler = "remove" /\ resp[t] = "ok"
        /\ RatedCount < ML_TRAINING_THRESHOLD
        /\ model_trained /\ Truth(model) = "true"

\* C2: the trainer called with fewer than 10 rows returns False and changes
\* neither model_trained nor the fitted model; called with 10 or more rows
\* it never returns False, and with boolean labels (as the Rating record has
\* them) it fits and returns True, after which model_trained is true.
C2_TrainIfReady ==
    [][\A t \in Threads :
          /\ (pc[t] = "train" /\ pc'[t] # "train") =>
                /\ Rows(t) < 10 =>
                      /\ loc'[t].outcome = "false"
                      /\ model' = model /\ model_trained' = model_trained
                /\ Rows(t) >= 10 => loc'[t].outcome # "false"
                /\ (Rows(t) >= 10 /\ "invalid" \notin LabelsOf(base, loc[t].data)) =>
                      pc'[t] = "fit"
          /\ (pc[t] = "fit" /\ pc'[t] # "fit") =>
                loc'[t].outcome = "true" /\ model_trained'
          /\ (loc'[t] # loc[t] /\ loc'[t].handler \in {"startup", "cli"}
                /\ loc'[t].outcome # "none") =>
                LET n == RowCount(base, loc'[t].data)
                IN /\ n >= 10 => loc'[t].outcome # "false"
                   /\ n < 10 =>
                         /\ loc'[t].outcome = "false"
                         /\ model'.trees = model.trees /\ model_trained' = model_trained
                   /\ (n >= 10 /\ "invalid" \notin LabelsOf(base, loc'[t].data)) =>
                         loc'[t].outcome = "true" /\ model_trained']_vars

\* C2 witness: the trainer has returned True on exactly 10 rows.
C2_Witness ==
    \E t \in Threads :
        /\ pc[t] = "done" /\ loc[t].outcome = "true" /\ Rows(t) = 10
        /\ model_trained

\* C3 (as claimed): the fitted model being served changes only in the step
\* in which a fit completes successfully; a retrain in progress never
\* writes to it.
C3_ServedModelReplacedAtomically ==
    [][(model_trained /\ Truth(model) = "true") =>
          \/ model' = model
          \/ \E t \in Threads : pc[t] = "fit" /\ loc'[t].outcome = "true"]_vars

\* C4 (as claimed): no prediction runs while a fit runs on the same object,
\* and no two fits run on the same object at once.
C4_MutualExclusion ==
    \A t, u \in Threads :
        (t # u /\ pc[t] = "fit" /\ loc[t].own) =>
            ~(pc[u] \in {"fit", "predict"} /\ loc[u].own)

\* C5 (as claimed): in both entry points training is attempted at startup
\* when the stored ratings reach the threshold, and after every rating that
\* is recorded or removed while the count is at or above the threshold, also
\* when the classifier is already trained.
C5_TrainingAttemptedOnEveryTrigger ==
    [][/\ (phase = "boot" /\ phase' # "boot" /\ GatePasses(RatedCount)) =>
              loc'[CliThread].outcome # "none"
       /\ \A t \in Threads :
              (pc[t] = "gate" /\ pc'[t] = "done") => ~GatePasses(RatedCount)
       /\ (app = "cli" /\ prefs' # prefs /\ GatePasses(RatedCount')) =>
              loc'[CliThread].outcome # "none"]_vars

\* C6 (as claimed): the trainer never raises to its caller.
C6_TrainerNeverRaises ==
    \A t \in Threads : loc[t].outcome # "raise"

\* C7 (as claimed): every recommendation request is answered with a list:
\* the view-count fallback, the plain ranking or the personalized ranking.
C7_RecommendationsAlwaysAList ==
    \A t \in Threads :
        (pc[t] = "done" /\ loc[t].handler = "recs") =>
            resp[t] \in {"fallback", "ranked", "personalized"}

(***************************************************************************)
(* Claims on the ranking pipeline (SpecRank).                              *)
(***************************************************************************)
BaseKeys == {"id", "view_count", "like_probability"}

\* C8: with no trained model a recommendation request answers with the
\* unrated videos in descending view_count order, each with
\* like_probability 0.5 and without content_similarity or pattern_boost,
\* and the classifier is not asked for anything.
C8_UntrainedFallback ==
    /\ rmodel = "none" => step \in {"input", "fallback"} /\ ~invoked
    /\ step = "fallback" =>
          /\ \A i \in 1..Len(out) :
                 /\ out[i].like_probability = 500
                 /\ DOMAIN out[i] = BaseKeys
          /\ Desc(out, "view_count")
          /\ Ids(out) = Ids(table) /\ Len(out) = Len(table)

\* C8 witness: the fallback has put a more viewed video ahead of a less
\* viewed one that is stored before it.
C8_Witness ==
    /\ step = "fallback" /\ Len(out) = 2 /\ Len(table) = 2
    /\ table[1].view_count < table[2].view_count
    /\ out[1].id = 2 /\ out[1].view_count > out[2].view_count

Asked == IF step = "base" THEN top_n * 2 ELSE top_n

ProbOf(vid) == cands[CHOOSE i \in 1..Len(cands) : cands[i].id = vid].p

\* C9: for a classifier that gives every candidate a probability, the ranker
\* returns exactly min(top_n, number of candidates) entries, none for no
\* candidates, each a distinct candidate with its probability, and no
\* omitted candidate has a strictly greater probability than a returned one.
C9_TopNHighest ==
    step \in {"ranked", "base"} =>
        /\ Len(out) = Min(Asked, Len(cands))
        /\ cands = <<>> => out = <<>>
        /\ Ids(out) \subseteq Ids(cands)
        /\ \A i, j \in 1..Len(out) : i # j => out[i].id # out[j].id
        /\ \A i \in 1..Len(out) : out[i].like_probability = ProbOf(out[i].id)
        /\ \A c \in 1..Len(cands) :
               cands[c].id \notin Ids(out) =>
                   \A i \in 1..Len(out) : cands[c].p <= out[i].like_probability

\* C9 witness: one of two candidates was asked for and the second, with the
\* greater probability, was returned.
C9_Witness ==
    /\ step = "ranked" /\ top_n = 1 /\ Len(cands) = 2
    /\ cands[1].p < cands[2].p
    /\ Len(out) = 1 /\ out[1].id = cands[2].id

PosIn(s, vid) == CHOOSE i \in 1..Len(s) : s[i].id = vid

\* Entries of new with equal scores are in the order they had in old.
TiesKeepOrder(new, old) ==
    \A i, j \in 1..Len(new) :
        (i < j /\ new[i].like_probability = new[j].like_probability) =>
            PosIn(old, new[i].id) < PosIn(old, new[j].id)

\* A candidate left out with the score of a returned one came after it.
CutoffKeepsFirst(new, old) ==
    \A c \in 1..Len(old) :
        old[c].id \notin Ids(new) =>
            \A i \in 1..Len(new) :
                old[c].p = new[i].like_probability => PosIn(old, new[i].id) < c

\* C10 (as claimed): after the ranker and after each enhancement stage the
\* list is in descending order of like_probability, entries with equal
\* like_probability are in the order they had before the step, and of the
\* candidates tied at the top_n cut-off the earlier ones are kept.
C10_DescendingStableTies ==
    [][/\ (step = "queried" /\ step' \in {"ranked", "base"}) =>
              /\ Desc(out', "like_probability")
              /\ TiesKeepOrder(out', cands)
              /\ CutoffKeepsFirst(out', cands)
       /\ (step' \in {"stageA", "stageB"} /\ step' # step) =>
              /\ Desc(out', "like_probability")
              /\ TiesKeepOrder(out', out)]_vars

(***************************************************************************)
(* Claims on the personalized pipeline (SpecRank).                         *)
(***************************************************************************)
\* The candidates the classifier scores strictly higher than candidate vid.
Above(vid) == {c \in 1..Len(cands) : cands[c].p > ProbOf(vid)}

HasField(s, f) == \A i \in 1..Len(s) : f \in DOMAIN s[i]

LacksField(s, f) == \A i \in 1..Len(s) : f \notin DOMAIN s[i]

\* C12: the stages are gated independently. Stage A runs exactly when the tag
\* set is non-empty and Stage B exactly when an engagement profile is
\* available; a skipped stage passes its input through, so with an empty tag
\* set and an available profile the final list is the ranker's output with
\* the Stage B boost.
C12_StagesGatedIndependently ==
    step = "final" =>
        /\ ~youtube_tags => LacksField(out, "content_similarity")
        /\ (youtube_tags /\ vocabulary) => HasField(out, "content_similarity")
        /\ ~user_data.cached => LacksField(out, "pattern_boost")
        /\ (user_data.cached /\ user_data.wellformed) => HasField(out, "pattern_boost")
        /\ (~youtube_tags /\ user_data.cached /\ user_data.wellformed) =>
               out = Take(_apply_engagement_patterns(base_recommendations,
                                                     user_data.patterns), top_n)

\* Stage A runs and its vectorizer raises.
StageAFails == step = "base" /\ youtube_tags /\ cands # <<>> /\ ~vocabulary

\* Stage B runs and the analysis of the user data raises.
StageBFails == step = "stageA" /\ user_data.cached /\ ~user_data.wellformed

\* C13: an enhancement stage that hits an internal error returns its input
\* unchanged (same entries, order and probabilities, nothing attached) and
\* the pipeline goes on to its next step.
C13_FailedStagePassesThrough ==
    [][/\ StageAFails => (out' = out /\ step' = "stageA")
       /\ StageBFails => (out' = out /\ step' = "stageB")]_vars

\* Stage A runs past its guards and the vectorizer.
StageARuns == step = "base" /\ youtube_tags /\ cands # <<>> /\ vocabulary

\* The entry of list s for video vid.
EntryOf(s, vid) == s[PosIn(s, vid)]

\* C14: for every entry of its input Stage A attaches a content_similarity in
\* [0,1] and replaces like_probability by 0.7 x like_probability +
\* 0.3 x min(2 x content_similarity, 1.0); with content_similarity 0 (no
\* shared term) the new probability is 0.7 x like_probability.
C14_StageABlend ==
    [][StageARuns =>
          /\ Ids(out') = Ids(out) /\ Len(out') = Len(out)
          /\ \A i \in 1..Len(out) :
                 LET e == EntryOf(out', out[i].id)
                     old == out[i].like_probability
                 IN /\ "content_similarity" \in DOMAIN e
                    /\ e.content_similarity \in 0..1000
                    /\ 10 * e.like_probability
                           = 7 * old + 3 * Min(2 * e.content_similarity, 1000)
                    /\ e.content_similarity = 0 => 10 * e.like_probability = 7 * old]_vars

\* C14 witness: Stage A has given a candidate with similarity 0 seven tenths
\* of its probability and blended another, whose doubled similarity is above
\* 1, with a content score of 1.
C14_Witness ==
    /\ step = "stageA" /\ Len(out) = 2 /\ Len(base_recommendations) = 2
    /\ HasField(out, "content_similarity")
    /\ out[1].content_similarity = 600 /\ out[1].like_probability = 720
    /\ out[2].content_similarity = 0 /\ out[2].like_probability = 700
    /\ base_recommendations[1].id = out[2].id
    /\ base_recommendations[1].like_probability = 1000

(***************************************************************************)
(* Claims on the boost (SpecBoost, SpecRank).                              *)
(***************************************************************************)
\* The bucket a view count lies in.
Bucket(v) ==
    IF v < 100000 THEN "low" ELSE IF v <= 1000000 THEN "moderate" ELSE "high"

ChannelMatches == unit_rec.channel_name \in unit_patterns.popular_channels

BucketMatches == Bucket(unit_rec.view_count) = unit_patterns.view_count_preference

TechMatches ==
    /\ "tech" \in unit_patterns.topic_preferences
    /\ \E kw \in {"programming", "coding", "tech", "software"} : kw \in KeywordsIn(unit_rec.title)

TutorialMatches ==
    /\ "tutorial" \in unit_patterns.topic_preferences
    /\ \E kw \in {"tutorial", "learn", "guide", "how to"} : kw \in KeywordsIn(unit_rec.title)

\* The product of the applicable factors, in millionths.
FactorProduct ==
    (IF ChannelMatches THEN 12 ELSE 10) * (IF BucketMatches THEN 11 ELSE 10)
        * (IF TechMatches THEN 115 ELSE 100) * (IF TutorialMatches THEN 115 ELSE 100)

\* C15: the boost of a candidate is min(1.5, product of the applicable
\* factors): 1.2 for a popular channel, 1.1 for a view_count in the profile's
\* bucket (low below 100,000, moderate 100,000 to 1,000,000 inclusive, high
\* above 1,000,000), 1.15 for tech with a tech keyword and a compounding 1.15
\* for tutorial with a tutorial keyword; exactly 1.0 with no applicable factor.
C15_BoostIsCappedProduct ==
    unit_boost # 0 =>
        /\ unit_boost = Min(1500000, FactorProduct)
        /\ (~ChannelMatches /\ ~BucketMatches /\ ~TechMatches /\ ~TutorialMatches)
               => unit_boost = 1000000

\* C15 witness: a boost of 1.1 x 1.15 x 1.15 = 1.45475, below the cap, for an
\* entry of exactly 1,000,000 views under a moderate preference.
C15_Witness ==
    /\ unit_boost = 1454750
    /\ unit_rec.view_count = 1000000
    /\ ~ChannelMatches /\ BucketMatches /\ TechMatches /\ TutorialMatches

\* C16: for every candidate and every engagement profile the boost lies in
\* [1.0, 1.5], also when channel, bucket and both topics match and the
\* product 1.2 x 1.1 x 1.15 x 1.15 is above 1.5.
C16_BoostWithinBounds ==
    unit_boost # 0 =>
        /\ 1000000 <= unit_boost /\ unit_boost <= 1500000
        /\ (ChannelMatches /\ BucketMatches /\ TechMatches /\ TutorialMatches)
               => unit_boost = 1500000

\* C16 witness: all four factors apply, their product is 1.7457 and the boost
\* is 1.5.
C16_Witness ==
    /\ ChannelMatches /\ BucketMatches /\ TechMatches /\ TutorialMatches
    /\ FactorProduct = 1745700
    /\ unit_boost = 1500000

\* Stage B runs past `if not user_data`.
StageBRuns == step = "stageA" /\ user_data.cached

\* C17: Stage B sets each entry's like_probability to
\* min(previous probability x boost, 1.0) and never lowers it, and every
\* like_probability in every list the pipeline produces (fallback, plain
\* ranking, after Stage A, after Stage B) lies in [0,1].
C17_ProbabilitiesStayInRange ==
    /\ [](\A i \in 1..Len(out) : out[i].like_probability \in 0..1000)
    /\ [][StageBRuns =>
             \A i \in 1..Len(out) :
                 LET e == EntryOf(out', out[i].id)
                     old == out[i].like_probability
                 IN /\ e.like_probability = Min((old * e.pattern_boost) \div 1000000, 1000)
                    /\ e.like_probability >= old]_vars

\* C17 witness: Stage B has boosted one entry to a higher probability below 1
\* and held another, whose product is above 1, at 1.
C17_Witness ==
    /\ step = "stageB" /\ Len(out) = 2 /\ HasField(out, "pattern_boost")
    /\ out[1].like_probability = 1000 /\ out[1].pattern_boost > 1000000
    /\ out[2].like_probability < 1000 /\ out[2].pattern_boost > 1000000
    /\ out[2].like_probability > ProbOf(out[2].id)

(***************************************************************************)
(* Claims on retraining and on the stored videos (Spec, SpecStore).        *)
(***************************************************************************)
\* C18: retraining is idempotent and independent of earlier fits: when a
\* training on rating set S returns, the served classifier holds the trees
\* grown from S and nothing else, whatever it was fitted on before.
C18_RetrainIndependentOfEarlierFits ==
    [][\A t \in Threads :
          (pc[t] = "fit" /\ pc'[t] = "done") =>
              (model'.exists /\ model'.trees = {loc[t].data})]_vars

C20_MalformedVideoSkippedAlone ==
    (last_op.kind = "search" /\ last_op.bad # {}) =>
        /\ last_op.outcome = "error"
        /\ (last_op.batch \ last_op.bad) \subseteq videos
        /\ (last_op.batch \ last_op.bad) \subseteq features

(***************************************************************************)
(* Claims on the feature extractor.                                        *)
(***************************************************************************)
Returned(r) == r.called /\ ~r.raised

\* C21: for a video with non-negative integer counts the call returns,
\* view_like_ratio is like_count over max(view_count, 1) and
\* engagement_score is like_count + comment_count over the same divisor,
\* the divisor is never zero, both are at least 0, engagement_score is at
\* least view_like_ratio, and 2,000,000 views with 100,000 likes and 5,000
\* comments give 0.05 and 0.0525.
C21_MetricsDefinedAndOrdered ==
    feat_first.called =>
        /\ Returned(feat_first)
        /\ LET m == feat_first.basic_metrics
               d == IF feat_given.view_count >= 1 THEN feat_given.view_count ELSE 1
           IN /\ m.view_like_ratio.den = d /\ m.engagement_score.den = d
              /\ d > 0
              /\ m.view_like_ratio.num = feat_given.like_count
              /\ m.engagement_score.num = feat_given.like_count + feat_given.comment_count
              /\ m.view_like_ratio.num >= 0 /\ m.engagement_score.num >= 0
              /\ m.engagement_score.num >= m.view_like_ratio.num
              /\ (feat_given.view_count = 2000000 /\ feat_given.like_count = 100000
                    /\ feat_given.comment_count = 5000)
                 => /\ m.view_like_ratio.num * 100 = 5 * m.view_like_ratio.den
                    /\ m.engagement_score.num * 10000 = 525 * m.engagement_score.den

C21_Witness ==
    /\ Returned(feat_first)
    /\ feat_given.view_count = 0 /\ feat_given.like_count = 1
    /\ feat_first.basic_metrics.view_like_ratio = [raised |-> FALSE, num |-> 1, den |-> 1]

C23_GateAndTrainerAgree ==
    \A t \in Threads : pc[t] = "train" => ~TooFewRows(Rows(t))

\* the training data a request would read now
CurrentData == get_training_data_from_database(prefs, features)

\* C24: a retrain that read an older snapshot of the ratings never replaces
\* a served model that was fitted on a newer one: when the trainer of a
\* request starts its fit while the served model holds the fit on the
\* rating history as it stands, that request's training data is that
\* history.
C24_OlderSnapshotNeverReplacesNewer ==
    [][\A t \in Threads :
          (/\ pc[t] = "train" /\ pc'[t] = "fit"
           /\ model.trees = {CurrentData}
           /\ \A u \in Threads \ {t} : pc[u] = "idle")
          => loc[t].data = CurrentData]_vars

\* C25: while model_trained is true the model handle is a classifier that
\* holds the trees of a completed fit, or one on which a fit is running
\* at this moment.
C25_TrainedFlagMeansFittedModel ==
    model_trained =>
        /\ model.exists
        /\ model.trees # {} \/ \E t \in Threads : pc[t] = "fit" /\ loc[t].own

\* C26: the rating store holds at most one rating row per video id.
C26_OneRatingPerVideo ==
    \A v \in Named : BagSize(prefs[v]) <= 1

(***************************************************************************)
(* Claims on what a recommendation request returns.                        *)
(***************************************************************************)
\* C27: on the fallback, the plain trained and the personalized path the
\* list a request builds and returns holds no video that had a rating when
\* the request read its candidates, and a video whose rating was removed is
\* a candidate again: a request that has room for every candidate returns
\* exactly the stored videos without a rating.
C27_OnlyUnratedRecommended ==
    /\ step # "db" => Ids(out) \cap rated = {}
    /\ (step \in Answered /\ (step = "fallback" \/ top_n >= Len(table)))
          => Ids(out) = Ids(catalog) \ rated

C27_Witness ==
    /\ step = "final" /\ rated # {}
    /\ \E v \in Ids(out) : v \in ever_rated
    /\ Len(out) < Len(catalog)

NoDuplicateIds(s) == \A i, j \in 1..Len(s) : s[i].id = s[j].id => i = j

\* C28: on the personalized path the stages only re-score and re-order:
\* after each stage the list holds every id the ranker returned exactly
\* once, and the list returned has min(top_n, number of candidates)
\* entries, all of them ids the ranker returned, none twice, whether no
\* stage, one stage or both stages ran.
C28_StagesKeepTheEntries ==
    /\ step \in {"stageA", "stageB"} =>
          /\ Ids(out) = Ids(base_recommendations)
          /\ Len(out) = Len(base_recommendations)
    /\ step = "final" =>
          /\ NoDuplicateIds(out)
          /\ Ids(out) \subseteq Ids(base_recommendations)
          /\ Ids(base_recommendations) \subseteq Ids(cands)
          /\ Len(out) = Min(top_n, Len(cands))

C28_Witness ==
    /\ step = "final"
    /\ top_n >= 1 /\ Len(out) = top_n /\ top_n < Len(cands)
    /\ HasField(out, "content_similarity") /\ HasField(out, "pattern_boost")
    /\ out[1].id # base_recommendations[1].id

(***************************************************************************)
(* Claims on the engagement profile.                                       *)
(***************************************************************************)
\* the user's liked videos all have the candidate's view count, above 0
LikedAllAtCandidateViews ==
    /\ liked_videos # <<>> /\ unit_rec.view_count > 0
    /\ \A i \in 1..Len(liked_videos) : liked_videos[i].view_count = unit_rec.view_count

\* C29: the view_count_preference of the profile is the bucket (low below
\* 100,000, moderate 100,000 to 1,000,000, high above 1,000,000) of the
\* median view count of the liked videos, so that a user whose liked
\* videos all have view count v > 0 gets the 1.1 bucket factor on a
\* candidate with view count v.
C29_ProfileBucketMatchesCandidateBucket ==
    (analysed /\ LikedAllAtCandidateViews) =>
        /\ unit_patterns.view_count_preference = Bucket(unit_rec.view_count)
        /\ unit_boost # 0 =>
              unit_boost = CapBoost((IF ChannelMatches THEN 12 ELSE 10) * 11
                                    * (IF TechMatches THEN 115 ELSE 100)
                                    * (IF TutorialMatches THEN 115 ELSE 100))

(***************************************************************************)
(* Claims on the OAuth login flow.                                         *)
(***************************************************************************)
\* C30: a state value issued by the login step passes the validation of
\* the callback at most once, through the session or through the stored
\* states: every later callback with the same state is answered as an
\* invalid state.
C30_StateAcceptedAtMostOnce ==
    \A s \in States : validated[s] <= 1

====
